---- MODULE Spec2Model ----
(***************************************************************************)
(* Model of GeoBeautyTrendAnalyzer (src/geo_trend_analyzer.py).            *)
(*                                                                         *)
(* The analyzer keeps one list, self.results.  Scores are Python floats    *)
(* (IEEE-754 binary64); the model keeps them as binary64 values, with the  *)
(* 53-bit significand held as a little-endian sequence of base-2^15 limbs  *)
(* so that products of limbs stay inside TLC's integers.                   *)
(***************************************************************************)
EXTENDS Integers, Sequences, FiniteSets, TLC

(***************************************************************************)
(* Natural numbers of arbitrary size: little-endian limbs, no leading      *)
(* zero limb, zero is the empty sequence.                                  *)
(***************************************************************************)
Base == 32768

LimbBits == 15

RECURSIVE Pow2(_)
Pow2(k) == IF k = 0 THEN 1 ELSE 2 * Pow2(k - 1)

RECURSIVE BigNorm(_)
BigNorm(a) ==
    IF a = << >> THEN << >>
    ELSE IF a[Len(a)] = 0 THEN BigNorm(SubSeq(a, 1, Len(a) - 1))
    ELSE a

RECURSIVE BigOfNat(_)
BigOfNat(n) == IF n = 0 THEN << >> ELSE <<n % Base>> \o BigOfNat(n \div Base)

RECURSIVE NatOfBig(_)
NatOfBig(a) == IF a = << >> THEN 0 ELSE Head(a) + Base * NatOfBig(Tail(a))

RECURSIVE BigMulSmallC(_, _, _)
BigMulSmallC(a, k, carry) ==
    IF a = << >> THEN BigOfNat(carry)
    ELSE LET t == Head(a) * k + carry
         IN  <<t % Base>> \o BigMulSmallC(Tail(a), k, t \div Base)

BigMulSmall(a, k) == BigNorm(BigMulSmallC(a, k, 0))

RECURSIVE BigAddC(_, _, _)
BigAddC(a, b, carry) ==
    IF a = << >> /\ b = << >> THEN BigOfNat(carry)
    ELSE LET x == IF a = << >> THEN 0 ELSE Head(a)
             y == IF b = << >> THEN 0 ELSE Head(b)
             t == x + y + carry
         IN  <<t % Base>> \o BigAddC(IF a = << >> THEN a ELSE Tail(a),
                                     IF b = << >> THEN b ELSE Tail(b),
                                     t \div Base)

BigAdd(a, b) == BigNorm(BigAddC(a, b, 0))

RECURSIVE BigMul(_, _)
BigMul(a, b) ==
    IF a = << >> \/ b = << >> THEN << >>
    ELSE LET rest == BigMul(a, Tail(b))
         IN  BigAdd(BigMulSmall(a, Head(b)),
                    IF rest = << >> THEN << >> ELSE <<0>> \o rest)

\* Short division by a small positive d: [q |-> quotient, r |-> remainder].
RECURSIVE BigDivSmallR(_, _, _, _)
BigDivSmallR(a, d, i, r) ==
    IF i = 0 THEN [q |-> << >>, r |-> r]
    ELSE LET cur  == r * Base + a[i]
             rest == BigDivSmallR(a, d, i - 1, cur % d)
         IN  [q |-> rest.q \o <<cur \div d>>, r |-> rest.r]

BigDivSmall(a, d) ==
    LET res == BigDivSmallR(a, d, Len(a), 0)
    IN  [q |-> BigNorm(res.q), r |-> res.r]

\* -1, 0, 1 as a < b, a = b, a > b.
RECURSIVE BigCmpFrom(_, _, _)
BigCmpFrom(a, b, i) ==
    IF i = 0 THEN 0
    ELSE IF a[i] < b[i] THEN -1
    ELSE IF a[i] > b[i] THEN 1
    ELSE BigCmpFrom(a, b, i - 1)

BigCmp(a, b) ==
    IF Len(a) < Len(b) THEN -1
    ELSE IF Len(a) > Len(b) THEN 1
    ELSE BigCmpFrom(a, b, Len(a))

RECURSIVE SmallBitLen(_)
SmallBitLen(n) == IF n = 0 THEN 0 ELSE 1 + SmallBitLen(n \div 2)

BigBitLen(a) ==
    IF a = << >> THEN 0
    ELSE LimbBits * (Len(a) - 1) + SmallBitLen(a[Len(a)])

\* floor(a / 2^k)
BigShr(a, k) ==
    LET limbs == k \div LimbBits
    IN  IF limbs >= Len(a) THEN << >>
        ELSE BigDivSmall(SubSeq(a, limbs + 1, Len(a)), Pow2(k % LimbBits)).q

\* a mod 2^k
BigLowBits(a, k) ==
    LET limbs == k \div LimbBits
    IN  IF limbs >= Len(a) THEN a
        ELSE BigNorm(SubSeq(a, 1, limbs) \o <<a[limbs + 1] % Pow2(k % LimbBits)>>)

\* a * 2^k
BigShl(a, k) ==
    IF a = << >> THEN << >>
    ELSE [i \in 1..(k \div LimbBits) |-> 0] \o BigMulSmall(a, Pow2(k % LimbBits))

BigIsOdd(a) == a # << >> /\ a[1] % 2 = 1

(***************************************************************************)
(* binary64.  A non-negative double is zero, or m * 2^e with the           *)
(* significand m in [2^52, 2^53).  Every float the analyzer computes is    *)
(* far from the overflow and subnormal ranges.                             *)
(***************************************************************************)
MantBits == 53

FZero == [m |-> << >>, e |-> 0]

\* A significand that rounding carried up to 2^53 is renormalised.
FNormalize(m, e) ==
    IF BigBitLen(m) > MantBits
    THEN [m |-> BigShr(m, 1), e |-> e + 1]
    ELSE [m |-> m, e |-> e]

\* Round to nearest, ties to even: c compares the dropped bits with one
\* half, sticky says that nonzero bits lie below the dropped ones.
RoundedTop(top, c, sticky) ==
    IF c = 1 \/ (c = 0 /\ (sticky \/ BigIsOdd(top)))
    THEN BigAdd(top, <<1>>)
    ELSE top

FRoundShift(n, e, sticky, shift) ==
    IF shift <= 0
    THEN [m |-> BigShl(n, -shift), e |-> e + shift]
    ELSE FNormalize(RoundedTop(BigShr(n, shift),
                               BigCmp(BigLowBits(n, shift),
                                      BigShl(<<1>>, shift - 1)),
                               sticky),
                    e + shift)

\* The double nearest to n * 2^e (plus a sticky fraction), ties to even.
FRound(n, e, sticky) ==
    IF n = << >> THEN FZero
    ELSE FRoundShift(n, e, sticky, BigBitLen(n) - MantBits)

\* Bits kept below the binary point when a small quotient is formed.
GuardBits == 60

FRoundQuotient(qr) == FRound(qr.q, -GuardBits, qr.r # 0)

\* float division of two small naturals: s / n, correctly rounded.
FDivNat(s, n) ==
    FRoundQuotient(BigDivSmall(BigShl(BigOfNat(s), GuardBits), n))

FOfNat(s) == FDivNat(s, 1)

\* float multiplication, correctly rounded.
FMul(x, y) ==
    IF x.m = << >> \/ y.m = << >> THEN FZero
    ELSE FRound(BigMul(x.m, y.m), x.e + y.e, FALSE)

\* -1, 0, 1 as x < y, x = y, x > y.
FCmp(x, y) ==
    IF x.m = << >> /\ y.m = << >> THEN 0
    ELSE IF x.m = << >> THEN -1
    ELSE IF y.m = << >> THEN 1
    ELSE IF x.e < y.e THEN -1
    ELSE IF x.e > y.e THEN 1
    ELSE BigCmp(x.m, y.m)

FGt(x, y) == FCmp(x, y) = 1

FLt(x, y) == FCmp(x, y) = -1

FGe(x, y) == FCmp(x, y) >= 0

\* n / 2^k rounded to an integer, ties to even.
RoundShr(q, c) ==
    NatOfBig(q) + (IF c = 1 \/ (c = 0 /\ BigIsOdd(q)) THEN 1 ELSE 0)

RoundHundredths(n, e) ==
    IF e >= 0 THEN NatOfBig(BigShl(n, e))
    ELSE RoundShr(BigShr(n, -e),
                  BigCmp(BigLowBits(n, -e), BigShl(<<1>>, -e - 1)))

\* round(x, 2) of the built-in: the exact value of x rounded to hundredths,
\* ties to even; the result is given as its number of hundredths.
FRound2(x) ==
    IF x.m = << >> THEN 0 ELSE RoundHundredths(BigMulSmall(x.m, 100), x.e)

(***************************************************************************)
(* Sequence helpers.                                                       *)
(***************************************************************************)
RECURSIVE Sum(_)
Sum(series) == IF series = << >> THEN 0 ELSE Head(series) + Sum(Tail(series))

RECURSIVE Max(_)
Max(series) ==
    IF Len(series) = 1 THEN series[1]
    ELSE LET rest == Max(Tail(series))
         IN  IF Head(series) >= rest THEN Head(series) ELSE rest

Reverse(seq) == [i \in 1..Len(seq) |-> seq[Len(seq) + 1 - i]]

\* Python's seq[:n]
SliceTo(seq, n) ==
    LET stop == IF n >= 0 THEN (IF n < Len(seq) THEN n ELSE Len(seq))
                ELSE (IF Len(seq) + n > 0 THEN Len(seq) + n ELSE 0)
    IN  SubSeq(seq, 1, stop)

\* A mean taken with integer division.
MeanFloorDiv(series) == FOfNat(Sum(series) \div Len(series))

\* Series.mean() of a non-empty integer series: the float sum / count.
Mean(series) == FDivNat(Sum(series), Len(series))

(***************************************************************************)
(* The data the model runs on.                                             *)
(***************************************************************************)
Keywords == {"botox", "peeling"}

Upper == [k \in Keywords |-> IF k = "botox" THEN "BOTOX" ELSE "PEELING"]

DefaultKeywords ==
    <<"botox", "estetica", "preenchimento labial", "implante capilar",
      "rejuvenescimento facial", "micropigmentacao", "peeling", "dermatologia">>

DefaultVolume == 100

Volumes == {DefaultVolume, 250}

RECURSIVE Repeat(_, _)
Repeat(v, n) == IF n = 0 THEN << >> ELSE <<v>> \o Repeat(v, n - 1)

\* Two series whose means, 3/8 and 5/13, differ by less than a hundredth.
SeriesEighths == Repeat(1, 3) \o Repeat(0, 5)

SeriesThirteenths == Repeat(1, 5) \o Repeat(0, 8)

\* The interest series the provider returns in the runs of Spec: the empty
\* series of an unrecognised keyword, one-sample series, means on the
\* popularity breakpoints 25, 50 and 75, and the two close means.
ProviderSeries ==
    { << >>, <<0>>, <<100>>, <<50, 50>>, <<50, 100>>, <<0, 50>>,
      SeriesEighths, SeriesThirteenths }

\* What one provider fetch does: any of the three calls raises, or the
\* interest-over-time frame comes back.
Outcomes ==
    {[ok |-> FALSE, series |-> << >>]}
        \cup {[ok |-> TRUE, series |-> s] : s \in ProviderSeries}

MaxFetches == 2

MaxBatch == 2

MaxN == 2

None == << >>

Event(ev, keyword) == [ev |-> ev, keyword |-> keyword]

(***************************************************************************)
(* The methods of GeoBeautyTrendAnalyzer, as functions of the state they   *)
(* read.                                                                   *)
(***************************************************************************)
\* A handler that hands back a frame of its own instead of None.
search_beauty_trends_default_frame(keyword, outcome, ts) ==
    [value |-> <<[keyword |-> keyword,
                  interest_over_time |-> IF outcome.ok /\ outcome.series # << >>
                                         THEN outcome.series ELSE <<0>>,
                  timestamp |-> ts]>>,
     trace |-> IF outcome.ok
               THEN <<Event("provider_ok", keyword), Event("sleep", keyword)>>
               ELSE <<Event("provider_fail", keyword)>>]

\* search_beauty_trends: the pause is inside the try block, after the calls.
search_beauty_trends(keyword, outcome, ts) ==
    IF outcome.ok
    THEN [value |-> <<[keyword |-> keyword,
                       interest_over_time |-> outcome.series,
                       timestamp |-> ts]>>,
          trace |-> <<Event("provider_ok", keyword), Event("sleep", keyword)>>]
    ELSE [value |-> None,
          trace |-> <<Event("provider_fail", keyword)>>]

Threshold115 == FDivNat(115, 100)

Threshold085 == FDivNat(85, 100)

TrendOfMeans(first_half_mean, second_half_mean) ==
    IF FGt(second_half_mean, FMul(first_half_mean, Threshold115))
    THEN "em alta"
    ELSE IF FLt(second_half_mean, FMul(first_half_mean, Threshold085))
    THEN "em queda"
    ELSE "estavel"

calculate_trend_direction(series) ==
    IF Len(series) < 2 THEN "dados insuficientes"
    ELSE TrendOfMeans(Mean(SubSeq(series, 1, Len(series) \div 2)),
                      Mean(SubSeq(series, Len(series) \div 2 + 1, Len(series))))

\* Breakpoints taken as exclusive.
classify_popularity_exclusive(score) ==
    IF FGt(score, FOfNat(75)) THEN "Muito popular"
    ELSE IF FGt(score, FOfNat(50)) THEN "Popular"
    ELSE IF FGt(score, FOfNat(25)) THEN "Moderado"
    ELSE "Baixo"

classify_popularity(score) ==
    IF FGe(score, FOfNat(75)) THEN "Muito popular"
    ELSE IF FGe(score, FOfNat(50)) THEN "Popular"
    ELSE IF FGe(score, FOfNat(25)) THEN "Moderado"
    ELSE "Baixo"

\* The statistics of lines 129-132 for a non-empty series.
Statistics(interest_series) ==
    [interest_score  |-> Mean(interest_series),
     max_interest    |-> Max(interest_series),
     trend_direction |-> calculate_trend_direction(interest_series),
     popularity      |-> classify_popularity(Mean(interest_series))]

\* Statistics of each series the provider returns, computed once.
StatisticsOf == [s \in ProviderSeries \ {<< >>} |-> Statistics(s)]

\* The dict built at lines 126-134.
ResultDict(keyword, search_volume, stats, trend_data) ==
    [keyword         |-> keyword,
     search_volume   |-> search_volume,
     interest_score  |-> stats.interest_score,
     max_interest    |-> stats.max_interest,
     trend_direction |-> stats.trend_direction,
     popularity      |-> stats.popularity,
     data            |-> trend_data]

ScoredResult(keyword, search_volume, trend_data) ==
    ResultDict(keyword, search_volume,
               StatisticsOf[trend_data.interest_over_time], trend_data)

Returned(res, status, value, trace) ==
    [results |-> res, status |-> status, value |-> value, trace |-> trace]

AppendResult(res, keyword, result, trace) ==
    Returned(Append(res, result), "return", <<result>>,
             trace \o <<Event("return_result", keyword)>>)

\* Lines 120-137.  An empty frame has no column for the keyword (KeyError
\* at line 124); an empty column has a NaN maximum (ValueError at line
\* 130): either way the exception leaves the method before the append.
AnalyzeFetched(res, keyword, search_volume, fetched) ==
    IF fetched.value = None
    THEN Returned(res, "return", None,
                  fetched.trace \o <<Event("return_none", keyword)>>)
    ELSE IF fetched.value[1].interest_over_time = << >>
    THEN Returned(res, "raise", None,
                  fetched.trace \o <<Event("raise", keyword)>>)
    ELSE AppendResult(res, keyword,
                      ScoredResult(keyword, search_volume, fetched.value[1]),
                      fetched.trace)

EnterCall(keyword, fetched) ==
    [value |-> fetched.value,
     trace |-> <<Event("call", keyword)>> \o fetched.trace]

analyze_neighborhood_beauty_search(res, keyword, search_volume, outcome, ts) ==
    AnalyzeFetched(res, keyword, search_volume,
                   EnterCall(keyword, search_beauty_trends(keyword, outcome, ts)))

\* The loop of search_multiple_beauty_keywords from keyword i on; an
\* exception of analyze_neighborhood_beauty_search ends it.
RECURSIVE BatchLoop(_, _, _, _, _, _, _)
BatchStep(one, keywords, outcomes, ts, i, all_results, trace) ==
    IF one.status = "raise"
    THEN Returned(one.results, "raise", None, trace \o one.trace)
    ELSE BatchLoop(one.results, keywords, outcomes, ts, i + 1,
                   all_results \o one.value, trace \o one.trace)

BatchLoop(res, keywords, outcomes, ts, i, all_results, trace) ==
    IF i > Len(keywords)
    THEN Returned(res, "return", all_results, trace)
    ELSE BatchStep(analyze_neighborhood_beauty_search(
                       res, keywords[i], DefaultVolume, outcomes[i], ts + i),
                   keywords, outcomes, ts, i, all_results, trace)

search_multiple_beauty_keywords(res, keywords, outcomes, ts) ==
    BatchLoop(res, IF keywords = None THEN DefaultKeywords ELSE keywords,
              outcomes, ts, 1, << >>, << >>)

(***************************************************************************)
(* Sorting.                                                                *)
(***************************************************************************)
\* list.sort on float keys: a stable ascending sort (an element goes after
\* every element whose key is not greater).
RECURSIVE InsertAsc(_, _)
InsertAsc(sorted, x) ==
    IF sorted = << >> THEN <<x>>
    ELSE IF FGt(Head(sorted).interest_score, x.interest_score)
    THEN <<x>> \o sorted
    ELSE <<Head(sorted)>> \o InsertAsc(Tail(sorted), x)

RECURSIVE StableSortAsc(_)
StableSortAsc(seq) ==
    IF seq = << >> THEN << >>
    ELSE InsertAsc(StableSortAsc(SubSeq(seq, 1, Len(seq) - 1)), seq[Len(seq)])

\* An ascending sort turned around: equal keys come out in reverse order.
ReverseTiesSortedByScore(res) == Reverse(StableSortAsc(res))

\* sorted(results, key=lambda x: x['interest_score'], reverse=True): the
\* list is reversed, sorted and reversed again, which keeps equal keys in
\* their original order.

SortedByScore(res) == Reverse(StableSortAsc(Reverse(res)))

\* A row of the frame: the score column holds round(interest_score, 2),
\* kept as a number of hundredths.
CsvRow(result) ==
    [keyword       |-> result.keyword,
     search_volume |-> result.search_volume,
     score2        |-> FRound2(result.interest_score),
     max_interest  |-> result.max_interest,
     tendencia     |-> result.trend_direction,
     popularidade  |-> result.popularity,
     data          |-> result.data.timestamp]

RECURSIVE InsertAscNat(_, _)
InsertAscNat(sorted, x) ==
    IF sorted = << >> THEN <<x>>
    ELSE IF Head(sorted).score2 > x.score2 THEN <<x>> \o sorted
    ELSE <<Head(sorted)>> \o InsertAscNat(Tail(sorted), x)

RECURSIVE StableSortAscNat(_)
StableSortAscNat(rows) ==
    IF rows = << >> THEN << >>
    ELSE InsertAscNat(StableSortAscNat(SubSeq(rows, 1, Len(rows) - 1)),
                      rows[Len(rows)])

\* df.sort_values('Score de Interesse', ascending=False): the argsort of
\* the reversed column, reversed; below 17 rows the default sort kind is an
\* insertion sort, so rows with equal rounded scores keep their order.
SortValuesDescending(rows) == Reverse(StableSortAscNat(Reverse(rows)))

(***************************************************************************)
(* The read-only methods.                                                  *)
(***************************************************************************)
\* self.results.sort(...) in place of sorted(self.results, ...).
get_top_beauty_trends_in_place(res, top_n) ==
    [results |-> SortedByScore(res),
     value   |-> IF res = << >> THEN << >>
                 ELSE SliceTo(SortedByScore(res), top_n)]

\* sorted() builds a new list: self.results is left as it was.
get_top_beauty_trends(res, top_n) ==
    [results |-> res,
     value   |-> IF res = << >> THEN << >>
                 ELSE SliceTo(SortedByScore(res), top_n)]

CsvFileName == "beauty_trends_analysis.csv"

JsonFileName == "beauty_trends_analysis.json"

export_to_csv(res, filename) ==
    IF res = << >>
    THEN [value |-> None, written |-> << >>]
    ELSE [value |-> <<filename>>,
          written |-> SortValuesDescending([i \in 1..Len(res) |-> CsvRow(res[i])])]

JsonElement(result) ==
    [keyword         |-> result.keyword,
     search_volume   |-> result.search_volume,
     interest_score  |-> result.interest_score,
     max_interest    |-> result.max_interest,
     trend_direction |-> result.trend_direction,
     popularity      |-> result.popularity,
     timestamp       |-> result.data.timestamp]

export_to_json(res, filename) ==
    IF res = << >>
    THEN [value |-> None, written |-> << >>]
    ELSE [value |-> <<filename>>,
          written |-> [i \in 1..Len(res) |-> JsonElement(res[i])]]

ReportBlock(idx, result) ==
    [idx        |-> idx,
     keyword    |-> Upper[result.keyword],
     score2     |-> FRound2(result.interest_score),
     max        |-> result.max_interest,
     tendencia  |-> result.trend_direction,
     popularity |-> result.popularity]

ReportBlocks(sorted_results) ==
    [i \in 1..Len(sorted_results) |-> ReportBlock(i, sorted_results[i])]

print_report(res) ==
    IF res = << >> THEN <<[text |-> "Nenhum resultado disponivel"]>>
    ELSE ReportBlocks(SortedByScore(res))

(***************************************************************************)
(* The state machine: one analyzer object and the calls made on it.        *)
(***************************************************************************)
VARIABLES
    results,   \* self.results
    clock,     \* the provider fetches made so far; datetime.now() follows it
    fetchLog,  \* history: every provider fetch, in order
    ret,       \* the last call: method, arguments, outcome, value, output
    trace      \* the events inside the last call

vars == <<results, clock, fetchLog, ret, trace>>

Fetch(keyword, outcome, ts) ==
    [keyword |-> keyword, ok |-> outcome.ok, series |-> outcome.series,
     timestamp |-> ts]

\* A call and what came of it: the method, its keyword and integer
\* arguments, a series argument, whether it returned or raised, the result
\* dicts and the strings it returned, and the rows it wrote.
Call(op, keywords, number, series, status, value, text, written) ==
    [op |-> op, keywords |-> keywords, number |-> number, series |-> series,
     status |-> status, value |-> value, text |-> text, written |-> written]

Init ==
    /\ results = << >>
    /\ clock = 0
    /\ fetchLog = << >>
    /\ ret = Call("__init__", << >>, 0, << >>, "return", << >>, << >>, << >>)
    /\ trace = << >>

AnalyzeOneDone(keyword, search_volume, outcome, r) ==
    /\ results' = r.results
    /\ clock' = clock + 1
    /\ fetchLog' = Append(fetchLog, Fetch(keyword, outcome, clock + 1))
    /\ ret' = Call("analyzeOne", <<keyword>>, search_volume, << >>,
                   r.status, r.value, << >>, << >>)
    /\ trace' = r.trace

AnalyzeOne ==
    \E keyword \in Keywords, search_volume \in Volumes, outcome \in Outcomes :
        /\ clock < MaxFetches
        /\ AnalyzeOneDone(keyword, search_volume, outcome,
                          analyze_neighborhood_beauty_search(
                              results, keyword, search_volume, outcome, clock + 1))

\* The keyword lists a caller passes; None stands for the default list,
\* whose eight fetches a run can make only with MaxFetches at eight or more.
KeywordLists ==
    {None} \cup UNION {[1..n -> Keywords] : n \in 1..MaxBatch}

\* The fetches a batch made: one per keyword the loop reached.
RECURSIVE CallsIn(_)
CallsIn(tr) ==
    IF tr = << >> THEN 0
    ELSE (IF Head(tr).ev = "call" THEN 1 ELSE 0) + CallsIn(Tail(tr))

AnalyzeManyDone(list, outcomes, r, n) ==
    /\ results' = r.results
    /\ clock' = clock + n
    /\ fetchLog' = fetchLog \o
           [i \in 1..n |-> Fetch(list[i], outcomes[i], clock + i)]
    /\ ret' = Call("analyzeMany", list, DefaultVolume, << >>,
                   r.status, r.value, << >>, << >>)
    /\ trace' = r.trace

AnalyzeManyRun(list, outcomes, r) ==
    AnalyzeManyDone(list, outcomes, r, CallsIn(r.trace))

AnalyzeManyWith(keywords, list) ==
    /\ clock + Len(list) <= MaxFetches
    /\ \E outcomes \in [1..Len(list) -> Outcomes] :
           AnalyzeManyRun(list, outcomes,
                          search_multiple_beauty_keywords(
                              results, keywords, outcomes, clock))

AnalyzeMany ==
    \E keywords \in KeywordLists :
        AnalyzeManyWith(keywords,
                        IF keywords = None THEN DefaultKeywords ELSE keywords)

GetTopDone(top_n, r) ==
    /\ results' = r.results
    /\ ret' = Call("topN", << >>, top_n, << >>, "return", r.value, << >>, << >>)
    /\ trace' = << >>
    /\ UNCHANGED <<clock, fetchLog>>

GetTop ==
    \E top_n \in -1..MaxN : GetTopDone(top_n, get_top_beauty_trends(results, top_n))

Exported(op, filename, r) ==
    /\ ret' = Call(op, << >>, 0, << >>, "return", << >>, r.value, r.written)
    /\ trace' = << >>
    /\ UNCHANGED <<results, clock, fetchLog>>

ExportCsv == Exported("csv", CsvFileName, export_to_csv(results, CsvFileName))

ExportJson == Exported("json", JsonFileName, export_to_json(results, JsonFileName))

PrintReport ==
    /\ ret' = Call("report", << >>, 0, << >>, "return", << >>, << >>,
                   print_report(results))
    /\ trace' = << >>
    /\ UNCHANGED <<results, clock, fetchLog>>

Next ==
    \/ AnalyzeOne
    \/ AnalyzeMany
    \/ GetTop
    \/ ExportCsv
    \/ ExportJson
    \/ PrintReport

Spec == Init /\ [][Next]_vars

(***************************************************************************)
(* _calculate_trend_direction on its own: every series over a few samples. *)
(***************************************************************************)
MaxLen == 3

TrendSamples == {0, 50, 57, 58, 85, 100}

TrendSeries == UNION {[1..n -> TrendSamples] : n \in 0..MaxLen}

InitTrend ==
    /\ results = << >>
    /\ clock = 0
    /\ fetchLog = << >>
    /\ ret \in {Call("trend", << >>, 0, s, "pending", << >>, << >>, << >>) :
                   s \in TrendSeries}
    /\ trace = << >>

CalculateTrend ==
    /\ ret.op = "trend"
    /\ ret.status = "pending"
    /\ ret' = Call("trend", << >>, 0, ret.series, "return", << >>,
                   <<calculate_trend_direction(ret.series)>>, << >>)
    /\ UNCHANGED <<results, clock, fetchLog, trace>>

NextTrend == CalculateTrend

SpecTrend == InitTrend /\ [][NextTrend]_vars

(***************************************************************************)
(* Properties.                                                             *)
(***************************************************************************)
Range(seq) == {seq[i] : i \in DOMAIN seq}

Min(a, b) == IF a < b THEN a ELSE b

IsPrefix(a, b) == Len(a) <= Len(b) /\ SubSeq(b, 1, Len(a)) = a

\* The provider fetches of the last call, oldest first.
LastFetches ==
    SubSeq(fetchLog, Len(fetchLog) - CallsIn(trace) + 1, Len(fetchLog))

HasEntry(ts) == \E i \in DOMAIN results : results[i].data.timestamp = ts

\* The place of an entry in self.results (timestamps tell entries apart).
Pos(entry) ==
    CHOOSE i \in DOMAIN results :
        results[i].data.timestamp = entry.data.timestamp

ReadOnlyOps == {"topN", "csv", "json", "report"}

\* C1: a fetch that succeeds with an empty interest series is a skipped
\* keyword: no exception leaves the call, the keyword gets no entry, and a
\* batch goes on to call analyzeOne for every keyword of its list.
C1_EmptySeriesSkipped ==
    \A j \in DOMAIN LastFetches :
        (LastFetches[j].ok /\ LastFetches[j].series = << >>) =>
            /\ ret.status = "return"
            /\ \A k \in DOMAIN trace : trace[k].ev # "raise"
            /\ ~HasEntry(LastFetches[j].timestamp)
            /\ ret.op = "analyzeMany" => CallsIn(trace) = Len(ret.keywords)

\* C2: a failed fetch makes analyzeOne return None without raising and
\* without an entry, a batch goes on with the next keyword, and every entry
\* of self.results is the entry of exactly one successful fetch, no two
\* entries sharing one.
C2_FailedFetchSkipped ==
    /\ \A j \in DOMAIN trace :
         trace[j].ev = "provider_fail" =>
            /\ j < Len(trace)
            /\ trace[j + 1] = Event("return_none", trace[j].keyword)
            /\ (ret.op = "analyzeMany" /\ CallsIn(SubSeq(trace, 1, j)) < Len(ret.keywords))
                  => /\ j + 2 <= Len(trace)
                     /\ trace[j + 2] =
                            Event("call", ret.keywords[CallsIn(SubSeq(trace, 1, j)) + 1])
    /\ (ret.op = "analyzeOne" /\ ~LastFetches[1].ok)
          => ret.status = "return" /\ ret.value = None
    /\ \A j \in DOMAIN fetchLog :
         ~fetchLog[j].ok => ~HasEntry(fetchLog[j].timestamp)
    /\ \A i \in DOMAIN results :
         Cardinality({j \in DOMAIN fetchLog :
                         /\ fetchLog[j].ok
                         /\ fetchLog[j].timestamp = results[i].data.timestamp
                         /\ fetchLog[j].keyword = results[i].keyword
                         /\ fetchLog[j].series = results[i].data.interest_over_time})
            = 1
    /\ \A i, k \in DOMAIN results :
         i # k => results[i].data.timestamp # results[k].data.timestamp

\* A batch of two whose first fetch failed and whose second gave an entry.
C2_Witness ==
    /\ ret.op = "analyzeMany"
    /\ ret.status = "return"
    /\ Len(ret.keywords) = 2
    /\ Len(LastFetches) = 2
    /\ ~LastFetches[1].ok
    /\ LastFetches[2].ok
    /\ Len(ret.value) = 1
    /\ HasEntry(LastFetches[2].timestamp)

\* a comes before b in the ranking: higher score, or equal score and
\* earlier in self.results.
RanksBefore(a, b) ==
    \/ FGt(a.interest_score, b.interest_score)
    \/ /\ FCmp(a.interest_score, b.interest_score) = 0
       /\ Pos(a) < Pos(b)

\* C3: topN(n), n >= 0, returns min(n, |results|) entries of self.results,
\* by score descending with equal scores in insertion order, and every
\* entry left out ranks after every entry returned.
C3_TopN ==
    (ret.op = "topN" /\ ret.number >= 0) =>
        /\ Len(ret.value) = Min(ret.number, Len(results))
        /\ \A i \in DOMAIN ret.value : ret.value[i] \in Range(results)
        /\ \A i, j \in DOMAIN ret.value :
             i < j => RanksBefore(ret.value[i], ret.value[j])
        /\ \A i \in DOMAIN ret.value : \A k \in DOMAIN results :
             results[k] \notin Range(ret.value)
                => RanksBefore(ret.value[i], results[k])

\* topN(2) over two entries of equal score.
C3_Witness ==
    /\ ret.op = "topN"
    /\ ret.number = 2
    /\ Len(results) = 2
    /\ Len(ret.value) = 2
    /\ FCmp(results[1].interest_score, results[2].interest_score) = 0

\* C4: self.results only grows at its end, and topN, the exports and the
\* report leave it as it was.
C4_AppendOnly ==
    [][/\ IsPrefix(results, results')
       /\ ret'.op \in ReadOnlyOps => results' = results]_vars

\* A read-only call on a list of two entries of different scores that is
\* not in score order.
C4_Witness ==
    /\ ret.op \in ReadOnlyOps
    /\ Len(results) = 2
    /\ FLt(results[1].interest_score, results[2].interest_score)

\* The keywords of the calls of analyzeOne in a trace, in order.
RECURSIVE CalledKeywords(_)
CalledKeywords(tr) ==
    IF tr = << >> THEN << >>
    ELSE (IF Head(tr).ev = "call" THEN <<Head(tr).keyword>> ELSE << >>)
             \o CalledKeywords(Tail(tr))

\* C5: analyzeMany calls analyzeOne once per keyword, in order, and returns
\* the entries those calls appended, in the order of self.results.
C5_BatchReturnsAllInOrder ==
    ret.op = "analyzeMany" =>
        /\ CalledKeywords(trace) = ret.keywords
        /\ ret.status = "return"
        /\ Len(ret.value) <= Len(results)
        /\ ret.value = SubSeq(results, Len(results) - Len(ret.value) + 1, Len(results))
        /\ Len(ret.value) =
               Cardinality({j \in DOMAIN LastFetches : LastFetches[j].ok})

\* C6: every provider call, successful or failed, is followed by the pause
\* before anything else happens.
C6_PauseAfterEveryFetch ==
    \A j \in DOMAIN trace :
        trace[j].ev \in {"provider_ok", "provider_fail"} =>
            /\ j < Len(trace)
            /\ trace[j + 1].ev = "sleep"

\* The direction by the exact ratios of the half means: with sums s1, s2
\* over n1, n2 samples, s2/n2 > 1.15 * s1/n1 is 100*s2*n1 > 115*s1*n2.
ExactTrend(series) ==
    IF Len(series) < 2 THEN "dados insuficientes"
    ELSE LET n1 == Len(series) \div 2
             n2 == Len(series) - n1
             s1 == Sum(SubSeq(series, 1, n1))
             s2 == Sum(SubSeq(series, n1 + 1, Len(series)))
         IN  IF 100 * s2 * n1 > 115 * s1 * n2 THEN "em alta"
             ELSE IF 100 * s2 * n1 < 85 * s1 * n2 THEN "em queda"
             ELSE "estavel"

\* C7: the direction is insufficient below two samples, else rising iff the
\* second-half mean is strictly above 1.15 times the first-half mean, else
\* falling iff strictly below 0.85 times it, else stable; a mean exactly on
\* a threshold is stable.
C7_TrendByExactRatio ==
    (ret.op = "trend" /\ ret.status = "return") =>
        ret.text[1] = ExactTrend(ret.series)

Score75 == FOfNat(75)

Score50 == FOfNat(50)

Score25 == FOfNat(25)

\* C8: every entry's tier is the tier of its own score: very popular iff
\* score >= 75, popular iff 50 <= score < 75, moderate iff 25 <= score < 50,
\* low iff score < 25.
C8_TierMatchesScore ==
    \A i \in DOMAIN results :
        /\ results[i].popularity = "Muito popular"
              <=> FGe(results[i].interest_score, Score75)
        /\ results[i].popularity = "Popular"
              <=> /\ FGe(results[i].interest_score, Score50)
                  /\ FLt(results[i].interest_score, Score75)
        /\ results[i].popularity = "Moderado"
              <=> /\ FGe(results[i].interest_score, Score25)
                  /\ FLt(results[i].interest_score, Score50)
        /\ results[i].popularity = "Baixo"
              <=> FLt(results[i].interest_score, Score25)

\* Entries with scores exactly on the breakpoints 75 and 25.
C8_Witness ==
    /\ Len(results) = 2
    /\ results[1].interest_score = Score75
    /\ results[1].popularity = "Muito popular"
    /\ results[2].interest_score = Score25
    /\ results[2].popularity = "Moderado"

Entry(ts) == results[CHOOSE i \in DOMAIN results : results[i].data.timestamp = ts]

\* C9: the CSV has one row per entry, and of two entries with different
\* scores the one with the higher score is written first.
C9_CsvSortedByScore ==
    (ret.op = "csv" /\ results # << >>) =>
        /\ Len(ret.written) = Len(results)
        /\ \A i \in DOMAIN results :
             \E k \in DOMAIN ret.written :
                 ret.written[k].data = results[i].data.timestamp
        /\ \A a, b \in DOMAIN ret.written :
             a < b => FGe(Entry(ret.written[a].data).interest_score,
                          Entry(ret.written[b].data).interest_score)

\* x is a double nearest to s / n: zero iff s is zero, else a normalised
\* significand m with |m * 2^e - s / n| at most half a unit of 2^e, which
\* for e < 0 reads |2 * m * n - 2 * s * 2^-e| <= n.
NearestDouble(x, s, n) ==
    IF s = 0 THEN x = FZero
    ELSE /\ BigBitLen(x.m) = MantBits
         /\ x.e < 0
         /\ BigCmp(BigMulSmall(x.m, 2 * n),
                   BigAdd(BigShl(BigOfNat(2 * s), -x.e), BigOfNat(n))) <= 0
         /\ BigCmp(BigShl(BigOfNat(2 * s), -x.e),
                   BigAdd(BigMulSmall(x.m, 2 * n), BigOfNat(n))) <= 0

ScoreIsMean(r) ==
    /\ r.data.interest_over_time # << >>
    /\ NearestDouble(r.interest_score, Sum(r.data.interest_over_time),
                     Len(r.data.interest_over_time))
    /\ r.max_interest \in Range(r.data.interest_over_time)
    /\ \A v \in Range(r.data.interest_over_time) : v <= r.max_interest

\* C10: every entry's score is the (float) arithmetic mean of its own
\* series and its max_interest that series' maximum, and no call changes
\* the score, the maximum or the series of an entry already there.
C10_ScoreIsMean ==
    /\ [](\A i \in DOMAIN results : ScoreIsMean(results[i]))
    /\ [][\A i \in DOMAIN results :
            /\ i \in DOMAIN results'
            /\ results'[i].interest_score = results[i].interest_score
            /\ results'[i].max_interest = results[i].max_interest
            /\ results'[i].data = results[i].data]_vars

\* An entry whose mean, 3/8, is no integer, after a later call.
C10_Witness ==
    /\ Len(results) = 2
    /\ results[1].data.interest_over_time = SeriesEighths
    /\ results[1].max_interest = 1
    /\ ret.op \in ReadOnlyOps

====
